---- MODULE Spec2Model ----
(***************************************************************************)
(* A model of the South African Casino rule engine of casino_game.py:      *)
(* the card/value model, the layout of loose cards and builds, the capture *)
(* and build searches, the execution of the chosen action, the round loop  *)
(* of play_full_game, the end-of-hand award and the scoring.                *)
(***************************************************************************)
EXTENDS Integers, Sequences, FiniteSets, Bags, TLC

VARIABLES
    num_players,     \* SouthAfricanCasinoGame.num_players
    partnerships,    \* SouthAfricanCasinoGame.partnerships (<<>> models None)
    deck,            \* SouthAfricanCasinoGame.deck
    hand,            \* Player.hand, by player id
    capture_pile,    \* Player.capture_pile, by player id
    last_capture,    \* Player.last_capture, by player id
    layout,          \* SouthAfricanCasinoGame.layout: loose cards and builds
    builds_created,  \* SouthAfricanCasinoGame.builds_created: the Build objects
    current_player,  \* SouthAfricanCasinoGame.current_player
    loop_i,          \* play_full_game: the index i of the for loop of a round
    game_phase,      \* SouthAfricanCasinoGame.game_phase
    pc,              \* where play_full_game stands
    scores,          \* the dictionary returned by calculate_scores
    actions,         \* play_turn: the list `actions` of the options of the played card
    last_call        \* the last call made on the engine: arguments and outcome

vars == <<num_players, partnerships, deck, hand, capture_pile, last_capture,
          layout, builds_created, current_player, loop_i, game_phase, pc,
          scores, actions, last_call>>

----------------------------------------------------------------------------
(* Bounds of the model *)

\* The model plays with the first DeckSize cards of DeckOrder.
DeckSize == 8

\* Init draws the shuffled deck from the first NumShuffles shuffles.
NumShuffles == 4

\* A caller of the engine applies at most MaxApplied of the options it listed
\* for one played card.
MaxApplied == 2

----------------------------------------------------------------------------
(* Card *)

Card(rank, suit) == [rank |-> rank, suit |-> suit]

\* int(self.rank) for the ranks '2'..'10'
IntOfRank(rank) ==
    CASE rank = "2" -> 2 [] rank = "3" -> 3 [] rank = "4" -> 4
      [] rank = "5" -> 5 [] rank = "6" -> 6 [] rank = "7" -> 7
      [] rank = "8" -> 8 [] rank = "9" -> 9 [] rank = "10" -> 10

\* Card.values: the list of values a card can count for
values(card) ==
    IF card.rank = "A" THEN <<1, 14>>
    ELSE IF card.rank = "J" THEN <<11>>
    ELSE IF card.rank = "Q" THEN <<12>>
    ELSE IF card.rank = "K" THEN <<13>>
    ELSE <<IntOfRank(card.rank)>>

\* Card.numeric_value: the value of the card when played from the hand
numeric_value(card) ==
    IF card.rank = "A" THEN 1
    ELSE IF card.rank = "J" THEN 11
    ELSE IF card.rank = "Q" THEN 12
    ELSE IF card.rank = "K" THEN 13
    ELSE IntOfRank(card.rank)

spy_two == Card("2", "SPADES")
big_ten == Card("10", "DIAMONDS")

----------------------------------------------------------------------------
(* The deck *)

NoCard == Card("", "")

\* The cards of the 40-card deck the model plays with, in the order in which a
\* reduced deck takes them: the four Aces, the 2 of spades and the 10 of
\* diamonds (the scoring cards) come first.
DeckOrder ==
    << Card("A", "SPADES"), Card("A", "HEARTS"), Card("A", "DIAMONDS"),
       Card("A", "CLUBS"), Card("2", "SPADES"), Card("10", "DIAMONDS"),
       Card("2", "HEARTS"), Card("3", "DIAMONDS"), Card("3", "CLUBS"),
       Card("4", "HEARTS"), Card("5", "CLUBS"), Card("6", "SPADES") >>

\* _create_deck before the shuffle
CreatedDeck == SubSeq(DeckOrder, 1, DeckSize)

FullDeck == {CreatedDeck[k] : k \in 1..DeckSize}

Rotate(s, k) == [j \in 1..Len(s) |-> s[((j - 1 + k) % Len(s)) + 1]]

Reverse(s) == [j \in 1..Len(s) |-> s[Len(s) + 1 - j]]

\* random.shuffle: the k-th of the orders the model draws from
Shuffle(k) ==
    IF k % 2 = 1 THEN Rotate(CreatedDeck, (k - 1) \div 2)
    ELSE Reverse(Rotate(CreatedDeck, (k - 2) \div 2))

----------------------------------------------------------------------------------------------------------------------------------------
(* Sequences as Python lists *)

RECURSIVE Concat(_)
\* the concatenation of a sequence of sequences
Concat(ss) == IF ss = <<>> THEN <<>> ELSE Head(ss) \o Concat(Tail(ss))

\* [F(x) for x in s]
MapSeq(F(_), s) == [k \in 1..Len(s) |-> F(s[k])]

\* the concatenation of the lists F(x) for x in s
FlatMap(F(_), s) == Concat(MapSeq(F, s))

\* list(range(a, b + 1))
Range(a, b) == [k \in 1..(b - a + 1) |-> a + k - 1]

SeqToSet(s) == {s[k] : k \in 1..Len(s)}

\* x in s
Contains(s, x) == \E k \in 1..Len(s) : s[k] = x

\* list.pop(index), with a 0-based index: the list without that element
RemoveAt(s, index) == SubSeq(s, 1, index) \o SubSeq(s, index + 2, Len(s))

Min(S) == CHOOSE x \in S : \A y \in S : x <= y

RECURSIVE SortedSeq(_)
\* sorted(list(totals))
SortedSeq(S) ==
    IF S = {} THEN <<>> ELSE <<Min(S)>> \o SortedSeq(S \ {Min(S)})

RECURSIVE combinations(_, _)
\* itertools.combinations(s, r), in its order
combinations(s, r) ==
    IF r = 0 THEN << <<>> >>
    ELSE IF Len(s) < r THEN <<>>
    ELSE MapSeq(LAMBDA combo : <<Head(s)>> \o combo, combinations(Tail(s), r - 1))
         \o combinations(Tail(s), r)

----------------------------------------------------------------------------
(* Layout items and builds *)

\* A layout item: a loose card (build = 0) or the Build object builds_created[build]
LooseItem(card) == [card |-> card, build |-> 0]
BuildItem(id) == [card |-> NoCard, build |-> id]

\* isinstance(item, Build)
IsBuild(item) == item.build # 0

\* dataclass Build
Build(cards, total_value, owner, is_augmented) ==
    [cards |-> cards, total_value |-> total_value, owner |-> owner,
     is_augmented |-> is_augmented]

\* a == b between two layout items: Card.__eq__ between cards, identity or the
\* dataclass field comparison between builds, False between a card and a build
ItemEq(bc, a, b) ==
    IF IsBuild(a) # IsBuild(b) THEN FALSE
    ELSE IF IsBuild(a) THEN a.build = b.build \/ bc[a.build] = bc[b.build]
    ELSE a.card = b.card

\* the 1-based position of the element that list.remove(item) removes, 0 when
\* there is none (list.remove raises ValueError)
IndexOf(bc, lay, item) ==
    IF \E k \in 1..Len(lay) : ItemEq(bc, lay[k], item)
    THEN CHOOSE k \in 1..Len(lay) :
            /\ ItemEq(bc, lay[k], item)
            /\ \A j \in 1..(k - 1) : ~ItemEq(bc, lay[j], item)
    ELSE 0

get_loose_cards(lay) ==
    MapSeq(LAMBDA item : item.card, SelectSeq(lay, LAMBDA item : ~IsBuild(item)))

get_builds(lay) ==
    MapSeq(LAMBDA item : item.build, SelectSeq(lay, IsBuild))

----------------------------------------------------------------------------
(* Value resolution *)

RECURSIVE TotalsOf_low(_, _)
\* calculate_total were it to take the first value of each card only
TotalsOf_low(totals, cards) ==
    IF cards = <<>> THEN totals
    ELSE TotalsOf_low({t + values(Head(cards))[1] : t \in totals}, Tail(cards))

RECURSIVE TotalsOf(_, _)
\* the loop of calculate_total: totals after the remaining cards
TotalsOf(totals, cards) ==
    IF cards = <<>> THEN totals
    ELSE TotalsOf({t + values(Head(cards))[v] :
                      t \in totals, v \in 1..Len(values(Head(cards)))},
                  Tail(cards))

calculate_total(cards) == SortedSeq(TotalsOf({0}, cards))

----------------------------------------------------------------------------
(* The game object *)

\* The fields of the game and of its players that the rules read and write.
Game ==
    [num_players |-> num_players, partnerships |-> partnerships,
     hand |-> hand, capture_pile |-> capture_pile, last_capture |-> last_capture,
     layout |-> layout, builds_created |-> builds_created]

\* range(self.num_players)
PlayerIds(g) == 0..(g.num_players - 1)

\* partnerships is None is modelled as the empty list; the model constructs the
\* game with None or with a non-empty list of pairs only
is_partnership_game(g) == g.partnerships # <<>>

_are_partners(g, player1_id, player2_id) ==
    IF g.partnerships = <<>> THEN FALSE
    ELSE \E k \in 1..Len(g.partnerships) :
            {g.partnerships[k][1], g.partnerships[k][2]} = {player1_id, player2_id}

\* _get_partner_id; -1 models None
_get_partner_id(g, player_id) ==
    IF g.partnerships = <<>> THEN -1
    ELSE IF \E k \in 1..Len(g.partnerships) :
               player_id \in {g.partnerships[k][1], g.partnerships[k][2]}
    THEN LET k == CHOOSE j \in 1..Len(g.partnerships) :
                     /\ player_id \in {g.partnerships[j][1], g.partnerships[j][2]}
                     /\ \A h \in 1..(j - 1) :
                           player_id \notin {g.partnerships[h][1], g.partnerships[h][2]}
         IN  IF g.partnerships[k][1] = player_id THEN g.partnerships[k][2]
             ELSE g.partnerships[k][1]
    ELSE -1

----------------------------------------------------------------------------
(* Capture search *)

\* the first loop of find_captures: the single loose cards, then the single builds
SingleCaptures(g, played_card) ==
    MapSeq(LAMBDA c : <<LooseItem(c)>>,
           SelectSeq(get_loose_cards(g.layout),
                     LAMBDA c : numeric_value(played_card) = numeric_value(c)))
    \o MapSeq(LAMBDA b : <<BuildItem(b)>>,
              SelectSeq(get_builds(g.layout),
                        LAMBDA b : numeric_value(played_card)
                                     = g.builds_created[b].total_value))

\* the second loop: the combinations of two or more loose cards
LooseCaptures(g, played_card) ==
    FlatMap(LAMBDA r :
                MapSeq(LAMBDA combo : MapSeq(LooseItem, combo),
                       SelectSeq(combinations(get_loose_cards(g.layout), r),
                                 LAMBDA combo : Contains(calculate_total(combo),
                                                         numeric_value(played_card)))),
            Range(2, Len(get_loose_cards(g.layout))))

\* the third loop were it to join each build with two loose cards
BuildCaptures_pairs(g, played_card) ==
    FlatMap(LAMBDA b :
                MapSeq(LAMBDA combo :
                           <<LooseItem(combo[1]), LooseItem(combo[2]), BuildItem(b)>>,
                       SelectSeq(combinations(get_loose_cards(g.layout), 2),
                                 LAMBDA combo :
                                     Contains(MapSeq(LAMBDA t :
                                                  t + g.builds_created[b].total_value,
                                                  calculate_total(combo)),
                                              numeric_value(played_card)))),
            get_builds(g.layout))

\* the third loop: each build with one loose card
BuildCaptures(g, played_card) ==
    FlatMap(LAMBDA b :
                MapSeq(LAMBDA combo : <<LooseItem(combo[1]), BuildItem(b)>>,
                       SelectSeq(combinations(get_loose_cards(g.layout), 1),
                                 LAMBDA combo :
                                     Contains(MapSeq(LAMBDA t :
                                                  t + g.builds_created[b].total_value,
                                                  calculate_total(combo)),
                                              numeric_value(played_card)))),
            get_builds(g.layout))

find_captures(g, played_card) ==
    SingleCaptures(g, played_card) \o LooseCaptures(g, played_card)
        \o BuildCaptures(g, played_card)

----------------------------------------------------------------------------
(* Build options: the dictionaries of can_create_build and can_augment_build *)

\* A dictionary with its keys; a field whose key is absent holds a filler.
CreateConfig(cards, played_card, total_value) ==
    [keys |-> {"cards", "played_card", "total_value", "type"},
     cards |-> cards, played_card |-> played_card, total_value |-> total_value,
     type |-> "single", build |-> 0, new_total |-> 0, action |-> "",
     augmenting_card |-> NoCard, cards_used |-> <<>>]

ChangeConfig(build, played_card, new_total) ==
    [keys |-> {"build", "played_card", "new_total", "action", "cards_used"},
     cards |-> <<>>, played_card |-> played_card, total_value |-> 0,
     type |-> "", build |-> build, new_total |-> new_total,
     action |-> "change_opponent_build",
     augmenting_card |-> NoCard, cards_used |-> <<played_card>>]

AugmentConfig(build, played_card, augmenting_card) ==
    [keys |-> {"build", "played_card", "action", "augmenting_card", "cards_used"},
     cards |-> <<>>, played_card |-> played_card, total_value |-> 0,
     type |-> "", build |-> build, new_total |-> 0,
     action |-> "augment_own_build",
     augmenting_card |-> augmenting_card,
     cards_used |-> <<played_card, augmenting_card>>]

\* [card.numeric_value for card in player.hand if card != played_card]
available_capture_values(g, player, played_card) ==
    MapSeq(numeric_value, SelectSeq(g.hand[player], LAMBDA c : c # played_card))

\* the total at which the loop of can_create_build over totals breaks
FirstIn(totals, avail) ==
    totals[CHOOSE j \in 1..Len(totals) :
              /\ Contains(avail, totals[j])
              /\ \A h \in 1..(j - 1) : ~Contains(avail, totals[h])]

\* the loops of can_create_build over the combinations of loose cards
BuildsFrom(loose, avail, played_card) ==
    FlatMap(LAMBDA r :
                MapSeq(LAMBDA combo :
                           CreateConfig(combo, played_card,
                               FirstIn(calculate_total(combo \o <<played_card>>), avail)),
                       SelectSeq(combinations(loose, r),
                                 LAMBDA combo :
                                     \E t \in SeqToSet(calculate_total(
                                                  combo \o <<played_card>>)) :
                                         Contains(avail, t))),
            Range(1, Len(loose)))

\* can_create_build were it to offer a total any card of the deck can capture
can_create_build_unheld(g, played_card, player) ==
    BuildsFrom(get_loose_cards(g.layout), MapSeq(numeric_value, CreatedDeck),
               played_card)

can_create_build(g, played_card, player) ==
    BuildsFrom(get_loose_cards(g.layout),
               available_capture_values(g, player, played_card), played_card)

\* the top cards were the piles of the player and of the partner read as well
opponent_top_cards_all(g, player) ==
    MapSeq(LAMBDA i : g.capture_pile[i][Len(g.capture_pile[i])],
           SelectSeq(Range(0, g.num_players - 1), LAMBDA i : g.capture_pile[i] # <<>>))

\* the top cards of the capture piles of the players who are not the player
\* nor, in a partnership game, the player's partner
opponent_top_cards(g, player) ==
    MapSeq(LAMBDA i : g.capture_pile[i][Len(g.capture_pile[i])],
           SelectSeq(Range(0, g.num_players - 1), LAMBDA i :
               /\ i # player
               /\ (~is_partnership_game(g) \/ ~_are_partners(g, player, i))
               /\ g.capture_pile[i] # <<>>))

\* the options of can_augment_build for one build: the opponent's build whose
\* value the played card changes, the own or partner's build augmented with a
\* card equal to its value
AugmentsOf(g, played_card, player, b, build, avail, available_cards) ==
    (IF build.owner # player
        /\ (~is_partnership_game(g) \/ ~_are_partners(g, player, build.owner))
     THEN MapSeq(LAMBDA new_total : ChangeConfig(b, played_card, new_total),
                 SelectSeq(calculate_total(build.cards \o <<played_card>>),
                           LAMBDA new_total : Contains(avail, new_total)))
     ELSE <<>>)
    \o
    (IF build.owner = player
        \/ (is_partnership_game(g) /\ _are_partners(g, player, build.owner))
     THEN MapSeq(LAMBDA card : AugmentConfig(b, played_card, card),
                 SelectSeq(available_cards,
                           LAMBDA card : Contains(values(card), build.total_value)))
     ELSE <<>>)

can_augment_build(g, played_card, player) ==
    FlatMap(LAMBDA b :
                AugmentsOf(g, played_card, player, b, g.builds_created[b],
                           available_capture_values(g, player, played_card),
                           get_loose_cards(g.layout) \o opponent_top_cards(g, player)),
            get_builds(g.layout))

----------------------------------------------------------------------------
(* Execution of an action *)

\* What a call leaves behind: the game as the call left it, the value it
\* returned ("None" when it raised or returns nothing) and the exception that
\* escaped it ("" when none did).
Outcome(g, ret, exc) == [g |-> g, ret |-> ret, exc |-> exc]

\* list.remove(item) on a layout that holds the item
RemoveItem(bc, lay, item) == RemoveAt(lay, IndexOf(bc, lay, item) - 1)

\* the cards of an item were a build to give its first card only
ItemCards_first(bc, item) ==
    IF IsBuild(item) THEN <<bc[item.build].cards[1]>> ELSE <<item.card>>

\* the cards an item adds to cards_to_capture
ItemCards(bc, item) == IF IsBuild(item) THEN bc[item.build].cards ELSE <<item.card>>

RECURSIVE CaptureLoop(_, _, _, _, _)
\* the loop of execute_capture over capture_group from its k-th item on: the
\* layout and cards_to_capture at the end of the loop, or at the item whose
\* removal raises ValueError
CaptureLoop(bc, lay, capture_group, k, cards_to_capture) ==
    IF k > Len(capture_group)
    THEN [layout |-> lay, cards |-> cards_to_capture, exc |-> ""]
    ELSE IF IndexOf(bc, lay, capture_group[k]) = 0
    THEN [layout |-> lay,
          cards |-> cards_to_capture \o ItemCards(bc, capture_group[k]),
          exc |-> "ValueError"]
    ELSE CaptureLoop(bc, RemoveItem(bc, lay, capture_group[k]), capture_group, k + 1,
                     cards_to_capture \o ItemCards(bc, capture_group[k]))

\* execute_capture after its loop were it to leave the other players'
\* last_capture as it is
Captured_kept(g, player, played_card, loop) ==
    IF loop.exc # ""
    THEN Outcome([g EXCEPT !.layout = loop.layout], "None", loop.exc)
    ELSE Outcome(
            [g EXCEPT
               !.layout = loop.layout,
               !.capture_pile[player] =
                   g.capture_pile[player] \o <<played_card>> \o loop.cards,
               !.last_capture[player] = TRUE],
            "True", "")

\* execute_capture after its loop
Captured(g, player, played_card, loop) ==
    IF loop.exc # ""
    THEN Outcome([g EXCEPT !.layout = loop.layout], "None", loop.exc)
    ELSE Outcome(
            [g EXCEPT
               !.layout = loop.layout,
               !.capture_pile[player] =
                   g.capture_pile[player] \o <<played_card>> \o loop.cards,
               !.last_capture = [p \in PlayerIds(g) |-> p = player]],
            "True", "")

execute_capture(g, player, played_card, capture_group) ==
    IF capture_group = <<>> THEN Outcome(g, "False", "")
    ELSE Captured(g, player, played_card,
                  CaptureLoop(g.builds_created, g.layout, capture_group, 1, <<>>))

RECURSIVE RemoveLoop(_, _, _, _)
\* the loop of execute_build that removes the used cards from the layout
RemoveLoop(bc, lay, cards, k) ==
    IF k > Len(cards) THEN [layout |-> lay, exc |-> ""]
    ELSE IF IndexOf(bc, lay, LooseItem(cards[k])) = 0
    THEN [layout |-> lay, exc |-> "ValueError"]
    ELSE RemoveLoop(bc, RemoveItem(bc, lay, LooseItem(cards[k])), cards, k + 1)

\* the 'single' branch were its loop to leave the used cards on the layout
Created_unremoved(g, new_build, loop) ==
    IF loop.exc # ""
    THEN Outcome(g, "None", loop.exc)
    ELSE Outcome(
            [g EXCEPT
               !.layout = Append(g.layout, BuildItem(Len(g.builds_created) + 1)),
               !.builds_created = Append(g.builds_created, new_build)],
            "True", "")

\* the 'single' branch after its loop: the new build joins the layout
Created(g, new_build, loop) ==
    IF loop.exc # ""
    THEN Outcome([g EXCEPT !.layout = loop.layout], "None", loop.exc)
    ELSE Outcome(
            [g EXCEPT
               !.layout = Append(loop.layout, BuildItem(Len(g.builds_created) + 1)),
               !.builds_created = Append(g.builds_created, new_build)],
            "True", "")

\* the 'single' branch were the played card put first in the build
CreateBuild_played_first(g, player, played_card, build_config) ==
    IF ~({"cards", "total_value"} \subseteq build_config.keys)
    THEN Outcome(g, "None", "KeyError")
    ELSE Created(g,
                 Build(<<played_card>> \o build_config.cards,
                       build_config.total_value, player, FALSE),
                 RemoveLoop(g.builds_created, g.layout, build_config.cards, 1))

\* the branch of execute_build for build_type 'single'
CreateBuild(g, player, played_card, build_config) ==
    IF ~({"cards", "total_value"} \subseteq build_config.keys)
    THEN Outcome(g, "None", "KeyError")
    ELSE Created(g,
                 Build(Append(build_config.cards, played_card),
                       build_config.total_value, player, FALSE),
                 RemoveLoop(g.builds_created, g.layout, build_config.cards, 1))

\* the branch of execute_build for the action 'change_opponent_build'
ChangeOpponentBuild(g, player, played_card, build_config) ==
    IF "build" \notin build_config.keys THEN Outcome(g, "None", "KeyError")
    ELSE IF "new_total" \notin build_config.keys
    THEN Outcome([g EXCEPT !.builds_created[build_config.build].cards =
                     Append(g.builds_created[build_config.build].cards, played_card)],
                 "None", "KeyError")
    ELSE Outcome(
            [g EXCEPT
               !.builds_created[build_config.build] =
                   Build(Append(g.builds_created[build_config.build].cards, played_card),
                         build_config.new_total, player,
                         g.builds_created[build_config.build].is_augmented)],
            "True", "")

\* the branch for 'augment_own_build' were it to take an augmenting card that
\* is not loose off the piles it tops
AugmentOwnBuild_taking(g, player, played_card, build_config) ==
    IF ~({"build", "augmenting_card"} \subseteq build_config.keys)
    THEN Outcome(g, "None", "KeyError")
    ELSE Outcome(
            [g EXCEPT
               !.layout =
                   IF Contains(get_loose_cards(g.layout), build_config.augmenting_card)
                   THEN RemoveItem(g.builds_created, g.layout,
                                   LooseItem(build_config.augmenting_card))
                   ELSE g.layout,
               !.capture_pile =
                   [p \in DOMAIN g.capture_pile |->
                       IF /\ ~Contains(get_loose_cards(g.layout),
                                       build_config.augmenting_card)
                          /\ g.capture_pile[p] # <<>>
                          /\ g.capture_pile[p][Len(g.capture_pile[p])]
                                = build_config.augmenting_card
                       THEN SubSeq(g.capture_pile[p], 1, Len(g.capture_pile[p]) - 1)
                       ELSE g.capture_pile[p]],
               !.builds_created[build_config.build] =
                   Build(g.builds_created[build_config.build].cards
                           \o <<played_card, build_config.augmenting_card>>,
                         g.builds_created[build_config.build].total_value,
                         g.builds_created[build_config.build].owner,
                         TRUE)],
            "True", "")

\* the branch of execute_build for the action 'augment_own_build'
AugmentOwnBuild(g, player, played_card, build_config) ==
    IF ~({"build", "augmenting_card"} \subseteq build_config.keys)
    THEN Outcome(g, "None", "KeyError")
    ELSE Outcome(
            [g EXCEPT
               !.layout =
                   IF Contains(get_loose_cards(g.layout), build_config.augmenting_card)
                   THEN RemoveItem(g.builds_created, g.layout,
                                   LooseItem(build_config.augmenting_card))
                   ELSE g.layout,
               !.builds_created[build_config.build] =
                   Build(g.builds_created[build_config.build].cards
                           \o <<played_card, build_config.augmenting_card>>,
                         g.builds_created[build_config.build].total_value,
                         g.builds_created[build_config.build].owner,
                         TRUE)],
            "True", "")

\* build_config.get('type', 'single')
build_type(build_config) ==
    IF "type" \in build_config.keys THEN build_config.type ELSE "single"

execute_build(g, player, played_card, build_config) ==
    IF build_type(build_config) = "single"
    THEN CreateBuild(g, player, played_card, build_config)
    ELSE IF "action" \in build_config.keys
    THEN IF build_config.action = "change_opponent_build"
         THEN ChangeOpponentBuild(g, player, played_card, build_config)
         ELSE IF build_config.action = "augment_own_build"
         THEN AugmentOwnBuild(g, player, played_card, build_config)
         ELSE Outcome(g, "False", "")
    ELSE Outcome(g, "False", "")

discard_card(g, player, played_card) ==
    Outcome([g EXCEPT !.layout = Append(g.layout, LooseItem(played_card))],
            "None", "")

----------------------------------------------------------------------------
(* Setup *)

\* _cut_deck: the four cards popped at index start = len(deck) // 2 - 2
CutAt(d, start) ==
    [cut |-> SubSeq(d, start + 1, start + 4),
     deck |-> SubSeq(d, 1, start) \o SubSeq(d, start + 5, Len(d))]

_cut_deck(d) == CutAt(d, (Len(d) \div 2) - 2)

\* the deal of setup_game: the cards popped from the end of the deck go to the
\* players in turn until the deck is empty
DealtHand(d, n, player) ==
    MapSeq(LAMBDA k : d[Len(d) + 1 - k],
           SelectSeq(Range(1, Len(d)), LAMBDA k : (k - 1) % n = player))

\* check_game_over were one empty hand enough
check_game_over_any(g) == \E p \in PlayerIds(g) : Len(g.hand[p]) = 0

\* check_game_over
check_game_over(g) == \A p \in PlayerIds(g) : Len(g.hand[p]) = 0

RECURSIVE NextTurn(_, _, _)
\* The loops of play_full_game from index i of the for loop of a round: the
\* players without cards are passed over, current_player moves on at the end of
\* each round, and the while loop ends when every hand is empty.
NextTurn(g, cp, i) ==
    IF i = g.num_players
    THEN IF check_game_over(g)
         THEN [current_player |-> (cp + 1) % g.num_players, loop_i |-> 0,
               pc |-> "cleanup"]
         ELSE NextTurn(g, (cp + 1) % g.num_players, 0)
    ELSE IF g.hand[(cp + i) % g.num_players] # <<>>
    THEN [current_player |-> cp, loop_i |-> i, pc |-> "turn"]
    ELSE NextTurn(g, cp, i + 1)

\* the first test of the while loop, then the loops as above
FirstTurn(g, cp) ==
    IF check_game_over(g)
    THEN [current_player |-> cp, loop_i |-> 0, pc |-> "cleanup"]
    ELSE NextTurn(g, cp, 0)

\* A call on the engine that nothing has filled in: the method (op), the player
\* and the card index it was given, the card played, the option applied (kind,
\* group, config), the value returned and the exception raised (ret, exc), the
\* exception play_turn caught, the number of options applied, the list given
\* to calculate_total and the totals it returned.
NoCall == [op |-> "", player |-> -1, card_index |-> -1, played_card |-> NoCard,
           kind |-> "", group |-> <<>>, config |-> CreateConfig(<<>>, NoCard, 0),
           ret |-> "None", exc |-> "", caught |-> "", applied |-> 0,
           cards |-> <<>>, totals |-> <<>>]

\* The games the model constructs: two and three players on their own, four
\* players in the partnerships of run_partnership_game.
Configs ==
    { [num_players |-> 2, partnerships |-> <<>>],
      [num_players |-> 3, partnerships |-> <<>>],
      [num_players |-> 4, partnerships |-> << <<0, 2>>, <<1, 3>> >>] }

\* SouthAfricanCasinoGame.__init__ followed by the shuffle
Init ==
    /\ \E c \in Configs :
          /\ num_players = c.num_players
          /\ partnerships = c.partnerships
    /\ deck \in {Shuffle(k) : k \in 1..NumShuffles}
    /\ hand = [p \in 0..(num_players - 1) |-> <<>>]
    /\ capture_pile = [p \in 0..(num_players - 1) |-> <<>>]
    /\ last_capture = [p \in 0..(num_players - 1) |-> FALSE]
    /\ layout = <<>>
    /\ builds_created = <<>>
    /\ current_player = 0
    /\ loop_i = 0
    /\ game_phase = "setup"
    /\ pc = "setup"
    /\ scores = [p \in 0..(num_players - 1) |-> 0]
    /\ actions = <<>>
    /\ last_call = NoCall

\* the game after the cut and the deal
Dealt(g, cut) ==
    [g EXCEPT
       !.layout = g.layout \o MapSeq(LooseItem, cut.cut),
       !.hand = [p \in PlayerIds(g) |-> DealtHand(cut.deck, g.num_players, p)]]

\* setup_game, called by play_full_game
setup_game ==
    /\ pc = "setup"
    /\ \E dealt \in {Dealt(Game, _cut_deck(deck))} :
       \E first \in {FirstTurn(dealt, 0)} :
           /\ layout' = dealt.layout
           /\ hand' = dealt.hand
           /\ deck' = <<>>
           /\ current_player' = first.current_player
           /\ loop_i' = first.loop_i
           /\ pc' = first.pc
    /\ game_phase' = "playing"
    /\ last_call' = [NoCall EXCEPT !.op = "setup_game"]
    /\ UNCHANGED <<num_players, partnerships, capture_pile, last_capture,
                   builds_created, scores, actions>>

----------------------------------------------------------------------------
(* A turn *)

\* Player.play_card as play_turn calls it: the index typed in, or 0 after the
\* ValueError or IndexError of an invalid one
PlayedIndex(g, player, card_input) ==
    IF 0 <= card_input /\ card_input < Len(g.hand[player]) THEN card_input ELSE 0

NoAction(kind) == [kind |-> kind, group |-> <<>>, config |-> NoCall.config]

\* the list `actions` of play_turn: the captures, the builds, the augmentations
\* and the discard, as (action_type, action_data) pairs
TurnActions(g, player, played_card) ==
    MapSeq(LAMBDA capture_group : [NoAction("capture") EXCEPT !.group = capture_group],
           find_captures(g, played_card))
    \o MapSeq(LAMBDA build_config : [NoAction("build") EXCEPT !.config = build_config],
              can_create_build(g, played_card, player))
    \o MapSeq(LAMBDA augment_config :
                  [NoAction("augment") EXCEPT !.config = augment_config],
              can_augment_build(g, played_card, player))
    \o << NoAction("discard") >>

\* find_captures, can_create_build and can_augment_build were get_top_card to
\* take the top card off the pile it reads
Searched_popping(g, player, played_card) ==
    [g |-> [g EXCEPT !.capture_pile =
                [p \in DOMAIN g.capture_pile |->
                    IF p # player /\ g.capture_pile[p] # <<>>
                    THEN SubSeq(g.capture_pile[p], 1, Len(g.capture_pile[p]) - 1)
                    ELSE g.capture_pile[p]]],
     listed |-> TurnActions(g, player, played_card)]

\* the three searches of play_turn: find_captures, can_create_build and
\* can_augment_build read the game and write none of it; the game after them
\* and the list of the options they found
Searched(g, player, played_card) ==
    [g |-> g, listed |-> TurnActions(g, player, played_card)]

\* the dispatch of play_turn on the chosen action
ApplyAction(g, player, played_card, action) ==
    IF action.kind = "capture"
    THEN execute_capture(g, player, played_card, action.group)
    ELSE IF action.kind \in {"build", "augment"}
    THEN execute_build(g, player, played_card, action.config)
    ELSE discard_card(g, player, played_card)

\* the end of play_turn: a ValueError raised by the action is caught and the
\* played card discarded; what the turn did is recorded
Finished(player, card_index, played_card, action, applied, final) ==
    [g |-> final.g,
     call |-> [op |-> "play_turn", player |-> player,
               card_index |-> card_index, played_card |-> played_card,
               kind |-> action.kind, group |-> action.group,
               config |-> action.config, ret |-> final.ret, exc |-> final.exc,
               caught |-> IF applied.exc = "ValueError" THEN "ValueError" ELSE "",
               applied |-> 1]]

Applied(player, card_index, played_card, action, applied) ==
    Finished(player, card_index, played_card, action, applied,
             IF applied.exc = "ValueError"
             THEN discard_card(applied.g, player, played_card)
             ELSE applied)

Chosen(g, player, card_index, played_card, action) ==
    Applied(player, card_index, played_card, action,
            ApplyAction(g, player, played_card, action))

Offered(g, player, card_index, played_card, listed, choice) ==
    Chosen(g, player, card_index, played_card,
           IF 0 <= choice /\ choice < Len(listed) THEN listed[choice + 1]
           ELSE NoAction("invalid"))

\* Player.play_card: the game without the played card, and the card
PlayCard(g, player, card_index) ==
    [g |-> [g EXCEPT !.hand[player] = RemoveAt(g.hand[player], card_index)],
     card_index |-> card_index,
     played_card |-> g.hand[player][card_index + 1]]

\* The card indexes and the action numbers a player may type in: every valid
\* one and an invalid one on either side.
CardInputs(g, player) == -1..Len(g.hand[player])

ChoiceInputs(listed) == -1..Len(listed)

\* the player whose turn the for loop of play_full_game has reached
TurnPlayer == (current_player + loop_i) % num_players

\* the variables after a turn: those of the game, and those of the loops of
\* play_full_game, which an exception that escapes play_turn ends
TurnDone(out, next) ==
    /\ hand' = out.g.hand
    /\ capture_pile' = out.g.capture_pile
    /\ last_capture' = out.g.last_capture
    /\ layout' = out.g.layout
    /\ builds_created' = out.g.builds_created
    /\ last_call' = out.call
    /\ IF out.call.exc # ""
       THEN /\ pc' = "raised"
            /\ UNCHANGED <<current_player, loop_i>>
       ELSE /\ pc' = next.pc
            /\ current_player' = next.current_player
            /\ loop_i' = next.loop_i

\* play_turn with the card index typed in: the card is played, the options
\* are listed, and the option of the action number typed in is applied; then
\* the loops of play_full_game up to the next turn
TurnWith(card_input) ==
    \E played \in {PlayCard(Game, TurnPlayer,
                            PlayedIndex(Game, TurnPlayer, card_input))} :
    \E found \in {Searched(played.g, TurnPlayer, played.played_card)} :
    \E choice \in ChoiceInputs(found.listed) :
    \E out \in {Offered(found.g, TurnPlayer, played.card_index,
                        played.played_card, found.listed, choice)} :
        /\ actions' = found.listed
        /\ TurnDone(out, NextTurn(out.g, current_player, loop_i + 1))

\* One iteration of the for loop of play_full_game on a player who holds cards:
\* play_turn with the card index and the action number typed in.
play_turn ==
    /\ pc = "turn"
    /\ \E card_input \in CardInputs(Game, TurnPlayer) : TurnWith(card_input)
    /\ UNCHANGED <<num_players, partnerships, deck, game_phase, scores>>

----------------------------------------------------------------------------
(* End of the hand *)

\* the remaining cards were the builds left out
remaining_loose(bc, lay) == get_loose_cards(lay)

\* the cards of the layout items: a loose card, or the cards of a build
remaining_cards(bc, lay) == FlatMap(LAMBDA item : ItemCards(bc, item), lay)

\* the first player with last_capture set
FirstLastCapturer(g) ==
    CHOOSE p \in PlayerIds(g) :
        /\ g.last_capture[p]
        /\ \A q \in 0..(p - 1) : ~g.last_capture[q]

\* capture_cards were it to put the remaining cards under the pile
AwardTo_under(g, last_capturer) ==
    [g EXCEPT
       !.capture_pile[last_capturer] =
           remaining_cards(g.builds_created, g.layout) \o g.capture_pile[last_capturer],
       !.layout = <<>>]

\* last_capturer.capture_cards(remaining_cards) and self.layout.clear()
AwardTo(g, last_capturer) ==
    [g EXCEPT
       !.capture_pile[last_capturer] =
           g.capture_pile[last_capturer] \o remaining_cards(g.builds_created, g.layout),
       !.layout = <<>>]

\* end_of_hand_cleanup were the first player to get the cards when no player
\* has last_capture set
cleanup_default(g) ==
    IF g.layout # <<>>
    THEN AwardTo(g, IF \E p \in PlayerIds(g) : g.last_capture[p]
                    THEN FirstLastCapturer(g) ELSE 0)
    ELSE g

\* the body of end_of_hand_cleanup
cleanup(g) ==
    IF (\E p \in PlayerIds(g) : g.last_capture[p]) /\ g.layout # <<>>
    THEN AwardTo(g, FirstLastCapturer(g))
    ELSE g

\* end_of_hand_cleanup, called by play_full_game; the call is recorded with the
\* layout it found
end_of_hand_cleanup ==
    /\ pc = "cleanup"
    /\ \E cleaned \in {cleanup(Game)} :
          /\ capture_pile' = cleaned.capture_pile
          /\ layout' = cleaned.layout
    /\ pc' = "scores"
    /\ last_call' = [NoCall EXCEPT !.op = "end_of_hand_cleanup", !.group = layout]
    /\ UNCHANGED <<num_players, partnerships, deck, hand, last_capture,
                   builds_created, current_player, loop_i, game_phase, scores,
                   actions>>

----------------------------------------------------------------------------
(* Scoring *)

RECURSIVE SumSeq(_)
SumSeq(s) == IF s = <<>> THEN 0 ELSE Head(s) + SumSeq(Tail(s))

\* Player.count_cards
count_cards(g, player) == Len(g.capture_pile[player])

\* Player.count_spades
count_spades(g, player) ==
    Len(SelectSeq(g.capture_pile[player], LAMBDA c : c.suit = "SPADES"))

\* Player.has_card: the card is in the player's hand
has_card(g, player, card) == Contains(g.hand[player], card)

\* the key were every player counted alone
ScoreKey_solo(g, player) == {player}

\* the key under which calculate_scores counts a player: the player, or the
\* sorted pair of the player and the partner, as the set of its player ids
ScoreKey(g, player) ==
    IF is_partnership_game(g) THEN {player, _get_partner_id(g, player)}
    ELSE {player}

\* the points for the special cards were the 10 of diamonds to count 1
special_of_small_ten(g, player) ==
    (IF has_card(g, player, spy_two) \/ Contains(g.capture_pile[player], spy_two)
     THEN 1 ELSE 0)
    + (IF has_card(g, player, big_ten) \/ Contains(g.capture_pile[player], big_ten)
       THEN 1 ELSE 0)
    + Len(SelectSeq(g.capture_pile[player], LAMBDA c : c.rank = "A"))

\* the points of one player for the special cards: the 2 of spades, the 10 of
\* diamonds and the Aces
special_of(g, player) ==
    (IF has_card(g, player, spy_two) \/ Contains(g.capture_pile[player], spy_two)
     THEN 1 ELSE 0)
    + (IF has_card(g, player, big_ten) \/ Contains(g.capture_pile[player], big_ten)
       THEN 2 ELSE 0)
    + Len(SelectSeq(g.capture_pile[player], LAMBDA c : c.rank = "A"))

\* the players counted under a key, in the order of self.players
KeyPlayers(g, key) ==
    SelectSeq(Range(0, g.num_players - 1), LAMBDA p : ScoreKey(g, p) = key)

\* card_counts, spade_counts and special_scores, for one key
card_counts(g, key) == SumSeq(MapSeq(LAMBDA p : count_cards(g, p), KeyPlayers(g, key)))

spade_counts(g, key) == SumSeq(MapSeq(LAMBDA p : count_spades(g, p), KeyPlayers(g, key)))

special_scores(g, key) == SumSeq(MapSeq(LAMBDA p : special_of(g, p), KeyPlayers(g, key)))

\* total_points were the two-player game left out
total_points_partners(g) == IF is_partnership_game(g) THEN 11 ELSE 7

\* 11 for two players or partnerships, 7 otherwise
total_points(g) ==
    IF is_partnership_game(g) \/ g.num_players = 2 THEN 11 ELSE 7

\* the keys of the dictionaries card_counts, spade_counts and special_scores
Keys(g) == {ScoreKey(g, p) : p \in PlayerIds(g)}

\* the keys that hold the maximum of a dictionary of counts
Winners(counts) ==
    {key \in DOMAIN counts : \A other \in DOMAIN counts : counts[other] <= counts[key]}

\* the points a player gets for a majority: 2 to the players of the only key
\* with the maximum, 1 to the players of every such key on a tie
majority_points(player, winners) ==
    IF \E key \in winners : player \in key
    THEN (IF Cardinality(winners) = 1 THEN 2 ELSE 1)
    ELSE 0

calculate_scores(g) ==
    [p \in PlayerIds(g) |->
        (IF total_points(g) = 11
         THEN majority_points(p, Winners([key \in Keys(g) |-> card_counts(g, key)]))
              + majority_points(p, Winners([key \in Keys(g) |-> spade_counts(g, key)]))
         ELSE 0)
        + special_scores(g, ScoreKey(g, p))]

\* the call of calculate_scores in play_full_game
scoring ==
    /\ pc = "scores"
    /\ scores' = calculate_scores(Game)
    /\ pc' = "done"
    /\ last_call' = [NoCall EXCEPT !.op = "calculate_scores"]
    /\ UNCHANGED <<num_players, partnerships, deck, hand, capture_pile,
                   last_capture, layout, builds_created, current_player, loop_i,
                   game_phase, actions>>

----------------------------------------------------------------------------
(* play_full_game *)

Next ==
    \/ setup_game
    \/ play_turn
    \/ end_of_hand_cleanup
    \/ scoring

Spec == Init /\ [][Next]_vars

----------------------------------------------------------------------------
(* The engine called directly *)

(***************************************************************************)
(* A caller other than play_turn drives a two-player game through the      *)
(* methods of the engine: it plays a card of a player (Player.play_card),  *)
(* lists the options of the card as play_turn does, and applies options of *)
(* that list with execute_capture, execute_build and discard_card.  It may *)
(* apply another option of the list after the first has changed the        *)
(* layout, and it may hand execute_build an augmentation dictionary with a *)
(* 'type' key other than 'single', the only dictionaries that reach the    *)
(* 'action' branches of execute_build.  last_call.applied counts the       *)
(* options the caller has applied since the deal.                          *)
(***************************************************************************)

\* the name of the method that applies an action
MethodOf(action) ==
    IF action.kind = "capture" THEN "execute_capture"
    ELSE IF action.kind = "discard" THEN "discard_card"
    ELSE "execute_build"

\* dict(build_config, type=build_type)
WithType(build_config, type) ==
    [build_config EXCEPT !.keys = build_config.keys \cup {"type"}, !.type = type]

\* the caller holds a played card and the list of its options
Holding ==
    /\ last_call.op \in {"play_card", "searches", "execute_capture",
                         "execute_build", "discard_card"}
    /\ last_call.exc # "IndexError"

\* the variables after the three searches for a played card
Listed(found, op, player, card_index, played_card) ==
    /\ hand' = found.g.hand
    /\ capture_pile' = found.g.capture_pile
    /\ last_capture' = found.g.last_capture
    /\ layout' = found.g.layout
    /\ builds_created' = found.g.builds_created
    /\ actions' = found.listed
    /\ last_call' = [NoCall EXCEPT !.op = op, !.player = player,
                                   !.card_index = card_index,
                                   !.played_card = played_card,
                                   !.applied = last_call.applied]

\* Player.play_card with a valid index, then the three searches
CardListed(played, player) ==
    Listed(Searched(played.g, player, played.played_card), "play_card", player,
           played.card_index, played.played_card)

\* Player.play_card called with any index: IndexError on an invalid one
call_play_card ==
    /\ pc = "turn"
    /\ last_call.op \notin {"play_card", "searches"} \/ last_call.exc = "IndexError"
    /\ last_call.applied < MaxApplied
    /\ \E player \in PlayerIds(Game) : \E card_index \in CardInputs(Game, player) :
          IF 0 <= card_index /\ card_index < Len(hand[player])
          THEN CardListed(PlayCard(Game, player, card_index), player)
          ELSE /\ last_call' = [NoCall EXCEPT !.op = "play_card",
                                   !.player = player, !.card_index = card_index,
                                   !.exc = "IndexError",
                                   !.applied = last_call.applied]
               /\ UNCHANGED <<hand, capture_pile, last_capture, layout,
                              builds_created, actions>>
    /\ UNCHANGED <<num_players, partnerships, deck, current_player, loop_i,
                   game_phase, pc, scores>>

\* find_captures, can_create_build and can_augment_build called again for the
\* card the caller holds, before any of its options is applied
call_searches ==
    /\ pc = "turn"
    /\ Holding
    /\ last_call.op \in {"play_card", "searches"}
    /\ Listed(Searched(Game, last_call.player, last_call.played_card),
              "searches", last_call.player, last_call.card_index,
              last_call.played_card)
    /\ UNCHANGED <<num_players, partnerships, deck, current_player, loop_i,
                   game_phase, pc, scores>>

\* the variables after a direct call of execute_capture, execute_build or
\* discard_card
ActionCalled(action, out) ==
    /\ hand' = out.g.hand
    /\ capture_pile' = out.g.capture_pile
    /\ last_capture' = out.g.last_capture
    /\ layout' = out.g.layout
    /\ builds_created' = out.g.builds_created
    /\ last_call' = [last_call EXCEPT
                        !.op = MethodOf(action), !.kind = action.kind,
                        !.group = action.group, !.config = action.config,
                        !.ret = out.ret, !.exc = out.exc,
                        !.applied = last_call.applied + 1]

\* execute_capture, execute_build or discard_card called with an option of the
\* list held, an augmentation either as listed or with a 'type' key
call_action ==
    /\ pc = "turn"
    /\ Holding
    /\ last_call.applied < MaxApplied
    /\ \E k \in 1..Len(actions), typed \in BOOLEAN :
          /\ typed => actions[k].kind = "augment"
          /\ \E action \in {IF typed
                            THEN [actions[k] EXCEPT
                                     !.config = WithType(actions[k].config, "augment")]
                            ELSE actions[k]} :
                ActionCalled(action,
                    ApplyAction(Game, last_call.player, last_call.played_card, action))
    /\ UNCHANGED <<num_players, partnerships, deck, current_player, loop_i,
                   game_phase, pc, scores, actions>>

InitApi == Init /\ num_players = 2

NextApi ==
    \/ setup_game
    \/ call_play_card
    \/ call_searches
    \/ call_action

SpecApi == InitApi /\ [][NextApi]_vars

----------------------------------------------------------------------------
(* calculate_total called on its own *)

\* The longest list of cards calculate_total is given.
MaxCards == 3

\* the lists of at most MaxCards cards of the deck, a card as often as one likes
CardLists == UNION {[1..n -> FullDeck] : n \in 0..MaxCards}

\* a two-player game as constructed, and a list of cards to resolve
InitTotal ==
    /\ num_players = 2
    /\ partnerships = <<>>
    /\ deck = CreatedDeck
    /\ hand = [p \in 0..1 |-> <<>>]
    /\ capture_pile = [p \in 0..1 |-> <<>>]
    /\ last_capture = [p \in 0..1 |-> FALSE]
    /\ layout = <<>>
    /\ builds_created = <<>>
    /\ current_player = 0
    /\ loop_i = 0
    /\ game_phase = "setup"
    /\ pc = "calculate_total"
    /\ scores = [p \in 0..1 |-> 0]
    /\ actions = <<>>
    /\ \E cards \in CardLists : last_call = [NoCall EXCEPT !.cards = cards]

call_calculate_total ==
    /\ pc = "calculate_total"
    /\ last_call.op = ""
    /\ last_call' = [last_call EXCEPT !.op = "calculate_total",
                                      !.totals = calculate_total(last_call.cards)]
    /\ UNCHANGED <<num_players, partnerships, deck, hand, capture_pile,
                   last_capture, layout, builds_created, current_player, loop_i,
                   game_phase, pc, scores, actions>>

NextTotal == call_calculate_total

SpecTotal == InitTotal /\ [][NextTotal]_vars

----------------------------------------------------------------------------
(* can_augment_build called on its own *)

\* The number of cards of a position that lie loose or on a capture pile.
MaxPlaced == 3

\* the cards the places send to the zone, in the order of the deck
PlacedIn(d, places, zone) ==
    MapSeq(LAMBDA k : d[k],
           SelectSeq(Range(4, 3 + MaxPlaced), LAMBDA k : places[k] = zone))

\* a position of a game for a player who has played a card: a build of the
\* first two cards of the deck with one of their totals and any owner, the
\* third card played, the last card in the hand, and MaxPlaced cards each
\* loose on the layout or on the capture pile of a player
InitAugment ==
    /\ \E c \in Configs :
          /\ num_players = c.num_players
          /\ partnerships = c.partnerships
    /\ \E d \in {Shuffle(k) : k \in 1..NumShuffles} :
       \E player \in 0..(num_players - 1), owner \in 0..(num_players - 1) :
       \E total_value \in SeqToSet(calculate_total(<<d[1], d[2]>>)) :
       \E places \in [4..(3 + MaxPlaced) -> {-1} \cup (0..(num_players - 1))] :
          /\ builds_created = <<Build(<<d[1], d[2]>>, total_value, owner, FALSE)>>
          /\ layout = MapSeq(LooseItem, PlacedIn(d, places, -1)) \o <<BuildItem(1)>>
          /\ hand = [p \in 0..(num_players - 1) |->
                        IF p = player THEN <<d[DeckSize]>> ELSE <<>>]
          /\ capture_pile = [p \in 0..(num_players - 1) |-> PlacedIn(d, places, p)]
          /\ last_call = [NoCall EXCEPT !.player = player, !.played_card = d[3]]
    /\ deck = <<>>
    /\ last_capture = [p \in 0..(num_players - 1) |-> FALSE]
    /\ current_player = 0
    /\ loop_i = 0
    /\ game_phase = "playing"
    /\ pc = "can_augment_build"
    /\ scores = [p \in 0..(num_players - 1) |-> 0]
    /\ actions = <<>>

\* can_augment_build called for the played card of the position
call_can_augment_build ==
    /\ pc = "can_augment_build"
    /\ actions' = MapSeq(LAMBDA config : [NoAction("augment") EXCEPT !.config = config],
                         can_augment_build(Game, last_call.played_card, last_call.player))
    /\ last_call' = [last_call EXCEPT !.op = "can_augment_build"]
    /\ pc' = "augments"
    /\ UNCHANGED <<num_players, partnerships, deck, hand, capture_pile,
                   last_capture, layout, builds_created, current_player, loop_i,
                   game_phase, scores>>

\* execute_build called with an option of the list, either as listed or with
\* a 'type' key
call_execute_build ==
    /\ pc = "augments"
    /\ \E k \in 1..Len(actions), typed \in BOOLEAN :
       \E action \in {IF typed
                      THEN [actions[k] EXCEPT
                               !.config = WithType(actions[k].config, "augment")]
                      ELSE actions[k]} :
          ActionCalled(action,
              ApplyAction(Game, last_call.player, last_call.played_card, action))
    /\ pc' = "applied"
    /\ UNCHANGED <<num_players, partnerships, deck, current_player, loop_i,
                   game_phase, scores, actions>>

NextAugment ==
    \/ call_can_augment_build
    \/ call_execute_build

SpecAugment == InitAugment /\ [][NextAugment]_vars

----------------------------------------------------------------------------
(* Properties *)

Players == 0..(num_players - 1)

\* the number of places of a list that hold the card
Count(s, card) == Cardinality({k \in 1..Len(s) : s[k] = card})

\* the number of places of the lists zone[p], over the players p, that hold
\* the card
CountIn(zone, card) ==
    Cardinality(UNION {{<<p, k>> : k \in {j \in 1..Len(zone[p]) : zone[p][j] = card}} :
                          p \in Players})

\* the number of loose places of the layout that hold the card
LooseCount(card) ==
    Cardinality({k \in 1..Len(layout) : ~IsBuild(layout[k]) /\ layout[k].card = card})

\* the number of places of the builds of the layout that hold the card
BuildCount(card) ==
    Cardinality(UNION {{<<k, j>> : j \in {i \in 1..Len(builds_created[layout[k].build].cards) :
                                             builds_created[layout[k].build].cards[i] = card}} :
                          k \in {h \in 1..Len(layout) : IsBuild(layout[h])}})

\* the number of places of all the zones that hold the card
ZoneCount(card) ==
    Count(deck, card) + CountIn(hand, card) + LooseCount(card) + BuildCount(card)
        + CountIn(capture_pile, card)

\* C1: card conservation.  In every state reached from setup_game by turns and
\* end_of_hand_cleanup, every card of the full deck is in exactly one place of
\* the deck, the hands, the loose cards of the layout, the builds of the layout
\* and the capture piles.
C1_Conservation == \A card \in FullDeck : ZoneCount(card) = 1

\* C2: build validity.  For every Build of the layout, total_value is one of
\* calculate_total(build.cards).
C2_BuildValidity ==
    \A k \in 1..Len(layout) :
        IsBuild(layout[k]) =>
            Contains(calculate_total(builds_created[layout[k].build].cards),
                     builds_created[layout[k].build].total_value)

\* at most one player has last_capture set
AtMostOneLastCapture == Cardinality({p \in Players : last_capture[p]}) <= 1

\* no player has last_capture set
NoLastCapture == \A p \in Players : ~last_capture[p]

\* the step is a call of execute_capture that returned True
CaptureSucceeded ==
    /\ last_call'.kind = "capture"
    /\ last_call'.ret = "True"

\* C3: last-capture exclusivity.  At most one player has last_capture set, no
\* player has it when the game is constructed, and a step that sets it for a
\* player is an execute_capture of that player that has succeeded.
C3_LastCaptureExclusive ==
    [][ /\ AtMostOneLastCapture /\ AtMostOneLastCapture'
        /\ pc = "setup" => NoLastCapture
        /\ \A p \in Players :
              (~last_capture[p] /\ last_capture'[p]) =>
                  (CaptureSucceeded /\ last_call'.player = p) ]_vars

\* A capture has taken last_capture from the player who had it: the player of
\* the capture has it and the other player's pile holds an earlier capture.
C3_Witness ==
    /\ last_call.kind = "capture"
    /\ last_call.ret = "True"
    /\ last_capture[last_call.player]
    /\ \E p \in Players : p # last_call.player /\ capture_pile[p] # <<>>

\* the item is one of the items of the list
ItemIn(item, items) == \E k \in 1..Len(items) : items[k] = item

\* the cards of a layout item of the state before the step
CardsOfItem(item) ==
    IF IsBuild(item) THEN builds_created[item.build].cards ELSE <<item.card>>

\* the number of places of the items of a group that hold the card
GroupCount(group, card) ==
    Cardinality(UNION {{<<k, j>> : j \in {i \in 1..Len(CardsOfItem(group[k])) :
                                             CardsOfItem(group[k])[i] = card}} :
                          k \in 1..Len(group)})

\* The step has captured the group with the played card for the player: the
\* items of the group have left the layout, the other items stay as they were,
\* the player's pile has grown by the played card and the cards of the group,
\* and the other players' hands and piles are as they were.
CaptureEffect(player, played_card, group) ==
    /\ \A k \in 1..Len(layout') : ~ItemIn(layout'[k], group)
    /\ layout' = SelectSeq(layout, LAMBDA item : ~ItemIn(item, group))
    /\ builds_created' = builds_created
    /\ Len(capture_pile'[player]) >= Len(capture_pile[player])
    /\ SubSeq(capture_pile'[player], 1, Len(capture_pile[player]))
          = capture_pile[player]
    /\ \A card \in FullDeck :
          Count(capture_pile'[player], card) =
              Count(capture_pile[player], card) + GroupCount(group, card)
                  + (IF card = played_card THEN 1 ELSE 0)
    /\ \A p \in Players \ {player} :
          hand'[p] = hand[p] /\ capture_pile'[p] = capture_pile[p]

\* C4: capture atomicity.  A turn that applies execute_capture to a group of
\* items of the layout removes every item of the group from the layout,
\* leaves every other item as it was, adds to the capturer's pile the played
\* card and the cards of the group, a build giving all of its cards, and
\* leaves every other player's hand and pile as they were.
C4_CaptureAtomicity ==
    [][ (/\ last_call'.op = "play_turn"
         /\ last_call'.kind = "capture"
         /\ \A k \in 1..Len(last_call'.group) : ItemIn(last_call'.group[k], layout))
        => (/\ last_call'.ret = "True"
            /\ CaptureEffect(last_call'.player, last_call'.played_card,
                             last_call'.group)) ]_vars

\* A turn has captured a build together with a loose card.
C4_Witness ==
    /\ last_call.op = "play_turn"
    /\ last_call.kind = "capture"
    /\ last_call.ret = "True"
    /\ \E k \in 1..Len(last_call.group) : IsBuild(last_call.group[k])
    /\ \E k \in 1..Len(last_call.group) : ~IsBuild(last_call.group[k])

\* the layout items an option works on: the group of a capture, the loose
\* cards of a build, the build of an augmentation
Targets(action) ==
    IF action.kind = "capture" THEN action.group
    ELSE IF action.kind = "build" THEN MapSeq(LooseItem, action.config.cards)
    ELSE IF action.kind = "augment" THEN <<BuildItem(action.config.build)>>
    ELSE <<>>

\* C5: stale option rejection.  A capture, a build creation or an augmentation
\* applied when one of its target items is not in the layout fails, and leaves
\* the layout, the builds, the hands and the capture piles as they were.
C5_StaleRejected ==
    [][ (/\ last_call'.op \in {"execute_capture", "execute_build"}
         /\ \E k \in 1..Len(Targets(last_call')) :
               ~ItemIn(Targets(last_call')[k], layout))
        => (/\ last_call'.ret # "True"
            /\ layout' = layout
            /\ builds_created' = builds_created
            /\ hand' = hand
            /\ capture_pile' = capture_pile) ]_vars

\* C6: end-of-hand award.  When every hand is empty and a player has
\* last_capture set, end_of_hand_cleanup adds to that player's pile the loose
\* cards of the layout and the cards of every build of the layout, and nothing
\* else, leaves every other pile as it was, and leaves the layout empty.
C6_EndOfHandAward ==
    [][ (/\ pc = "cleanup" /\ pc' = "scores"
         /\ \A p \in Players : hand[p] = <<>>
         /\ ~NoLastCapture)
        => \E p \in Players :
              /\ last_capture[p]
              /\ Len(capture_pile'[p]) >= Len(capture_pile[p])
              /\ SubSeq(capture_pile'[p], 1, Len(capture_pile[p])) = capture_pile[p]
              /\ \A card \in FullDeck :
                    Count(capture_pile'[p], card) =
                        Count(capture_pile[p], card) + LooseCount(card)
                            + BuildCount(card)
              /\ \A q \in Players \ {p} : capture_pile'[q] = capture_pile[q]
              /\ layout' = <<>> ]_vars

\* end_of_hand_cleanup has given the last capturer a layout that held a loose
\* card and a build.
C6_Witness ==
    /\ pc = "scores"
    /\ last_call.op = "end_of_hand_cleanup"
    /\ ~NoLastCapture
    /\ layout = <<>>
    /\ \E k \in 1..Len(last_call.group) : IsBuild(last_call.group[k])
    /\ \E k \in 1..Len(last_call.group) : ~IsBuild(last_call.group[k])

\* C7: no default winner.  When no capture has occurred in the hand, every
\* capture pile is empty after end_of_hand_cleanup and at scoring.
C7_NoDefaultWinner ==
    (pc \in {"scores", "done"} /\ NoLastCapture) =>
        \A p \in Players : capture_pile[p] = <<>>

\* end_of_hand_cleanup has run on a hand without a capture whose layout holds
\* loose cards and a build.
C7_Witness ==
    /\ pc = "scores"
    /\ NoLastCapture
    /\ \A p \in Players : capture_pile[p] = <<>>
    /\ \E k \in 1..Len(layout) : IsBuild(layout[k])
    /\ \E k \in 1..Len(layout) : ~IsBuild(layout[k])

\* C8 as stated: the scores of every completed two-player game sum to 11.
C8_BudgetAlways ==
    (pc = "done" /\ num_players = 2) => scores[0] + scores[1] = 11

\* C8: point budget in two-player play.  The scores of every completed
\* two-player game in which a capture has succeeded sum to 11.
C8_BudgetAfterCapture ==
    (pc = "done" /\ num_players = 2 /\ ~NoLastCapture) =>
        scores[0] + scores[1] = 11

\* A two-player game with captures by both players has been scored.
C8_Witness ==
    /\ pc = "done"
    /\ num_players = 2
    /\ ~NoLastCapture
    /\ capture_pile[0] # <<>> /\ capture_pile[1] # <<>>
    /\ scores[0] + scores[1] = 11

\* the values a card may take: 1 or 14 for an Ace, the value of its rank
\* otherwise
ValuesOf(card) == IF card.rank = "A" THEN {1, 14} ELSE {numeric_value(card)}

\* the sums of one value of each card of the list
ChoiceSums(cards) ==
    {SumSeq(choice) :
        choice \in {f \in [1..Len(cards) -> UNION {ValuesOf(cards[k]) : k \in 1..Len(cards)}] :
                       \A k \in 1..Len(cards) : f[k] \in ValuesOf(cards[k])}}

\* C9: value resolution.  calculate_total returns, once each, the sums of one
\* value of each card of its list: 0 alone for the empty list, 1 and 14 for one
\* Ace, 2, 15 and 28 for two Aces.
C9_ValueResolution ==
    last_call.op = "calculate_total" =>
        /\ SeqToSet(last_call.totals) = ChoiceSums(last_call.cards)
        /\ Len(last_call.totals) = Cardinality(ChoiceSums(last_call.cards))
        /\ last_call.cards = <<>> => SeqToSet(last_call.totals) = {0}
        /\ (Len(last_call.cards) = 1 /\ last_call.cards[1].rank = "A")
              => SeqToSet(last_call.totals) = {1, 14}
        /\ (Len(last_call.cards) = 2 /\ last_call.cards[1].rank = "A"
                /\ last_call.cards[2].rank = "A")
              => SeqToSet(last_call.totals) = {2, 15, 28}

\* calculate_total has resolved two Aces and a card of one value.
C9_Witness ==
    /\ last_call.op = "calculate_total"
    /\ Len(last_call.cards) = 3
    /\ last_call.cards[1].rank = "A"
    /\ last_call.cards[2].rank = "A"
    /\ last_call.cards[3].rank = "2"
    /\ last_call.totals = <<4, 17, 30>>

\* the loose items of the layout
LooseItems == {layout[k] : k \in {j \in 1..Len(layout) : ~IsBuild(layout[j])}}

\* the build items of the layout
BuildItems == {layout[k] : k \in {j \in 1..Len(layout) : IsBuild(layout[j])}}

\* the loose cards of a set of loose items, in the order of the layout
CardsIn(items) ==
    MapSeq(LAMBDA item : item.card, SelectSeq(layout, LAMBDA item : item \in items))

\* the groups the played card captures from the layout, each as the set of its
\* items: a loose card of its value, a build of its value, two or more loose
\* cards with a total of its value, a build and a loose card that add up to it
ExpectedGroups(played_card) ==
    {{item} : item \in {i \in LooseItems :
                           numeric_value(i.card) = numeric_value(played_card)}}
    \cup {{item} : item \in {i \in BuildItems :
                                builds_created[i.build].total_value
                                    = numeric_value(played_card)}}
    \cup {group \in SUBSET LooseItems :
             /\ Cardinality(group) >= 2
             /\ Contains(calculate_total(CardsIn(group)), numeric_value(played_card))}
    \cup {{pair[1], pair[2]} : pair \in {bl \in BuildItems \X LooseItems :
             \E v \in ValuesOf(bl[2].card) :
                 builds_created[bl[1].build].total_value + v
                     = numeric_value(played_card)}}

\* the places of the list of options that hold a capture
CaptureEntries(listed) == {k \in 1..Len(listed) : listed[k].kind = "capture"}

\* C10: capture search.  The groups find_captures returns for the played card
\* of a turn are, each once, the single loose cards of its value, the single
\* builds of its value, the sets of two or more loose cards with a total of
\* its value and the pairs of a build and a loose card that add up to it; no
\* group holds two builds or a build with more than one loose card.
C10_CaptureSearch ==
    [][ last_call'.op = "play_turn" =>
          /\ {SeqToSet(actions'[k].group) : k \in CaptureEntries(actions')}
                = ExpectedGroups(last_call'.played_card)
          /\ \A k \in CaptureEntries(actions') :
                /\ Cardinality(SeqToSet(actions'[k].group)) = Len(actions'[k].group)
                /\ \A j \in CaptureEntries(actions') :
                      SeqToSet(actions'[j].group) = SeqToSet(actions'[k].group)
                          => j = k
                /\ Cardinality({i \in 1..Len(actions'[k].group) :
                                   IsBuild(actions'[k].group[i])}) <= 1
                /\ (\E i \in 1..Len(actions'[k].group) : IsBuild(actions'[k].group[i]))
                      => Len(actions'[k].group) <= 2 ]_vars

\* A turn has listed a capture of a build with a loose card and a capture of
\* two or more loose cards.
C10_Witness ==
    /\ last_call.op = "play_turn"
    /\ \E k \in CaptureEntries(actions) :
          /\ Len(actions[k].group) = 2
          /\ \E i \in 1..2 : IsBuild(actions[k].group[i])
    /\ \E k \in CaptureEntries(actions) :
          /\ Len(actions[k].group) >= 2
          /\ \A i \in 1..Len(actions[k].group) : ~IsBuild(actions[k].group[i])

----------------------------------------------------------------------------
(* C11: the builds can_create_build offers *)

\* the places of the list of options that hold a build to create
BuildEntries(listed) == {k \in 1..Len(listed) : listed[k].kind = "build"}

\* the totals of the loose cards at the places S with the played card, an Ace
\* being 1 or 14: the sum with every Ace at 1, and 13 more for each Ace at 14
BuildTotals(loose, S, played_card) ==
    {BagCardinality([i \in S |-> numeric_value(loose[i])])
         + numeric_value(played_card) + 13 * high :
        high \in 0..(Cardinality({i \in S : loose[i].rank = "A"})
                        + IF played_card.rank = "A" THEN 1 ELSE 0)}

\* the totals among them that are the value of a held card
QualifyingTotals(loose, S, played_card, held_values) ==
    BuildTotals(loose, S, played_card) \cap held_values

\* the builds the played card makes with the loose cards for a player who
\* holds cards of the values `held_values`: the places of a set of loose cards
\* and its smallest qualifying total, for every non-empty set that has one
ExpectedBuilds(loose, played_card, held_values) ==
    {<<S, Min(QualifyingTotals(loose, S, played_card, held_values))>> :
        S \in {T \in SUBSET (1..Len(loose)) :
                  T # {} /\ QualifyingTotals(loose, T, played_card, held_values) # {}}}

\* the places among the loose cards of the cards of a build that is offered
PlacesOf(loose, cards) == {i \in 1..Len(loose) : Contains(cards, loose[i])}

\* the values of the cards of the hand other than the played card
HeldValues(held, played_card) ==
    {numeric_value(held[i]) : i \in {j \in 1..Len(held) : held[j] # played_card}}

\* C11: build options.  The builds can_create_build offers for the played
\* card of a turn are, at most once for each non-empty set of loose cards, the
\* sets with a total, together with the played card, equal to the value of a
\* card the player holds other than the played card; the total offered is the
\* smallest such total, which is the first in the order of calculate_total.
C11_BuildOptions ==
    [][ last_call'.op = "play_turn" =>
          /\ {<<PlacesOf(get_loose_cards(layout), actions'[k].config.cards),
                actions'[k].config.total_value>> : k \in BuildEntries(actions')}
                = ExpectedBuilds(get_loose_cards(layout), last_call'.played_card,
                                 HeldValues(hand'[last_call'.player],
                                            last_call'.played_card))
          /\ \A k \in BuildEntries(actions') :
                /\ actions'[k].config.played_card = last_call'.played_card
                /\ Len(actions'[k].config.cards)
                      = Cardinality(PlacesOf(get_loose_cards(layout),
                                             actions'[k].config.cards))
                /\ actions'[k].config.total_value
                      = FirstIn(calculate_total(actions'[k].config.cards
                                                    \o <<last_call'.played_card>>),
                                MapSeq(numeric_value, hand'[last_call'.player]))
                /\ \A j \in BuildEntries(actions') :
                      actions'[j].config.cards = actions'[k].config.cards
                          => j = k ]_vars

\* A turn has listed two builds, one of them with an Ace among its loose
\* cards, and has left unlisted a set of loose cards no held card can capture.
C11_Witness ==
    /\ last_call.op = "play_turn"
    /\ Cardinality(BuildEntries(actions)) >= 2
    /\ \E k \in BuildEntries(actions) :
          \E i \in 1..Len(actions[k].config.cards) :
              actions[k].config.cards[i].rank = "A"
    /\ Cardinality(BuildEntries(actions)) < 2 ^ Cardinality(LooseItems) - 1

----------------------------------------------------------------------------
(* C12: the searches are queries *)

----------------------------------------------------------------------------
(* C13: the capture piles grow at the top only *)

\* the list `before` is the beginning of the list `after`
IsPrefix(before, after) ==
    /\ Len(before) <= Len(after)
    /\ SubSeq(after, 1, Len(before)) = before

\* C13: capture piles are append-only.  Across every step of the game, the
\* actions of a turn and the end-of-hand step among them, the capture pile of
\* each player before the step is the beginning of that pile after it: no
\* card of a pile is removed or moved.
C13_PilesAppendOnly ==
    [][ /\ DOMAIN capture_pile' = DOMAIN capture_pile
        /\ \A p \in DOMAIN capture_pile :
              IsPrefix(capture_pile[p], capture_pile'[p]) ]_vars

\* The end-of-hand step has put the cards left on the layout on a pile that
\* held captured cards.
C13_Witness ==
    /\ last_call.op = "end_of_hand_cleanup"
    /\ last_call.group # <<>>
    /\ layout = <<>>
    /\ \E p \in Players :
          /\ last_capture[p]
          /\ Len(capture_pile[p])
                > Len(remaining_cards(builds_created, last_call.group))

----------------------------------------------------------------------------
(* C14: loose cards and builds share no card *)

\* the places of the layout that hold a build with the card among its cards
BuildsHolding(card) ==
    {k \in 1..Len(layout) :
        IsBuild(layout[k]) /\ Contains(builds_created[layout[k].build].cards, card)}

\* C14: layout disjointness.  In every state of a game no card is both a
\* loose card of the layout and a card of a build of the layout, and no card
\* is a card of two builds of the layout.
C14_LayoutDisjoint ==
    \A card \in FullDeck :
        /\ LooseCount(card) > 0 => BuildsHolding(card) = {}
        /\ Cardinality(BuildsHolding(card)) <= 1

\* The layout holds two builds and a loose card.
C14_Witness ==
    /\ Cardinality({k \in 1..Len(layout) : IsBuild(layout[k])}) >= 2
    /\ \E k \in 1..Len(layout) : ~IsBuild(layout[k])

----------------------------------------------------------------------------
(* C15: one card played and one action applied in a turn *)

\* the number of places of the capture piles, of the loose cards and of the
\* builds of the layout that hold the card
PlacedCount(card) == CountIn(capture_pile, card) + LooseCount(card) + BuildCount(card)

\* C15: one play, one action per turn.  Every turn takes exactly one card out
\* of the hand of the player; after the turn the played card is in exactly
\* one place: the pile of the player after a capture, a build of the layout
\* after a build or an augmentation, a loose place of the layout after a
\* discard.  This holds for every option of the turn, the augmentations too.
C15_OnePlayOneAction ==
    [][ last_call'.op = "play_turn" =>
          \A card \in FullDeck : card = last_call'.played_card =>
              /\ Len(hand'[last_call'.player]) = Len(hand[last_call'.player]) - 1
              /\ \A p \in Players : p # last_call'.player => hand'[p] = hand[p]
              /\ PlacedCount(card)' = 1
              /\ last_call'.kind = "capture" /\ last_call'.caught = ""
                    => Count(capture_pile'[last_call'.player], card) = 1
              /\ last_call'.kind \in {"build", "augment"} /\ last_call'.caught = ""
                    => BuildCount(card)' = 1
              /\ last_call'.kind \in {"discard", "invalid"}
                    => LooseCount(card)' = 1 ]_vars

----------------------------------------------------------------------------
(* C16: the end of the hand *)

\* every hand is empty
AllHandsEmpty == \A p \in Players : hand[p] = <<>>

\* C16: hand termination.  The playing loop of play_full_game ends exactly
\* when every hand is empty: turns are played while a hand holds a card, and
\* once the loop has been left every hand is empty, end_of_hand_cleanup and
\* then calculate_scores run once each, and no turn is played afterwards.
C16_HandTermination ==
    /\ pc = "turn" => ~AllHandsEmpty
    /\ pc \notin {"setup", "turn"} => AllHandsEmpty

----------------------------------------------------------------------------
(* C17 and C18: the augmentations play_turn applies *)

\* the turn just taken applied an augmentation of the kind `action`
Augmented(action) ==
    /\ last_call'.op = "play_turn"
    /\ last_call'.kind = "augment"
    /\ last_call'.config.action = action

\* C17: opponent-build seizure.  A 'change_opponent_build' option of
\* can_augment_build applied through execute_build, as play_turn applies it,
\* appends the played card to the build, sets the total_value of the build to
\* the new_total of the option and its owner to the player, and removes no
\* item from the layout and no card from a pile or from the hand the played
\* card has left.
C17_SeizureEffect ==
    [][ Augmented("change_opponent_build") =>
          /\ Len(builds_created') = Len(builds_created)
          /\ builds_created'[last_call'.config.build] =
                Build(builds_created[last_call'.config.build].cards
                          \o <<last_call'.played_card>>,
                      last_call'.config.new_total,
                      last_call'.player,
                      builds_created[last_call'.config.build].is_augmented)
          /\ \A b \in 1..Len(builds_created) :
                b # last_call'.config.build => builds_created'[b] = builds_created[b]
          /\ layout' = layout
          /\ capture_pile' = capture_pile
          /\ hand' = [hand EXCEPT ![last_call'.player] =
                         RemoveAt(hand[last_call'.player], last_call'.card_index)]
      ]_vars

\* C18: own-build augmentation.  An 'augment_own_build' option of
\* can_augment_build applied through execute_build, as play_turn applies it,
\* appends the played card and the augmenting card to the build, leaves the
\* total_value and the owner of the build as they were, sets is_augmented,
\* and takes the augmenting card off the layout when it was a loose card.
C18_AugmentEffect ==
    [][ Augmented("augment_own_build") =>
          /\ Len(builds_created') = Len(builds_created)
          /\ builds_created'[last_call'.config.build] =
                Build(builds_created[last_call'.config.build].cards
                          \o <<last_call'.played_card,
                               last_call'.config.augmenting_card>>,
                      builds_created[last_call'.config.build].total_value,
                      builds_created[last_call'.config.build].owner,
                      TRUE)
          /\ layout' =
                IF Contains(get_loose_cards(layout), last_call'.config.augmenting_card)
                THEN RemoveAt(layout,
                              IndexOf(builds_created, layout,
                                      LooseItem(last_call'.config.augmenting_card)) - 1)
                ELSE layout
      ]_vars

----------------------------------------------------------------------------
(* C19: a card index out of range *)

\* the card index typed in is negative or not less than the size of the hand
OutOfRange(card_input) ==
    ~(0 <= card_input /\ card_input < Len(hand[TurnPlayer]))

\* C19: no silent fallback on an invalid card index.  A turn for which the
\* card index typed in is out of range plays no card in its place: it leaves
\* the hand of the player, the layout and the capture piles as they were.
C19_NoSilentFallback ==
    [][ (/\ pc = "turn"
         /\ \E card_input \in CardInputs(Game, TurnPlayer) :
               OutOfRange(card_input) /\ TurnWith(card_input))
        => (/\ hand' = hand
            /\ layout' = layout
            /\ capture_pile' = capture_pile) ]_vars

----------------------------------------------------------------------------
(* C20: the scores of a two-player game *)

\* the number of spades and the number of Aces of the pile of a player
SpadesOf(p) ==
    Cardinality({k \in 1..Len(capture_pile[p]) : capture_pile[p][k].suit = "SPADES"})

AcesOf(p) ==
    Cardinality({k \in 1..Len(capture_pile[p]) : capture_pile[p][k].rank = "A"})

\* 2 for strictly more than the opponent, 1 for as many, 0 for fewer
Majority(mine, theirs) ==
    IF mine > theirs THEN 2 ELSE IF mine = theirs THEN 1 ELSE 0

\* C20: two-player scoring.  In a two-player game played to the end, with
\* empty hands, calculate_scores gives each player 2, 1 or 0 points for more,
\* as many or fewer cards than the opponent, 2, 1 or 0 points likewise for the
\* spades, 1 point for the 2 of spades in the pile, 2 points for the 10 of
\* diamonds in the pile and 1 point for each Ace in the pile.
C20_TwoPlayerScores ==
    (pc = "done" /\ num_players = 2) =>
        /\ \A p \in {0, 1} : hand[p] = <<>>
        /\ \A p \in {0, 1} :
              scores[p] =
                  Majority(Len(capture_pile[p]), Len(capture_pile[1 - p]))
                  + Majority(SpadesOf(p), SpadesOf(1 - p))
                  + (IF Count(capture_pile[p], Card("2", "SPADES")) > 0 THEN 1 ELSE 0)
                  + (IF Count(capture_pile[p], Card("10", "DIAMONDS")) > 0 THEN 2 ELSE 0)
                  + AcesOf(p)

\* A two-player game has been scored in which one player has more cards, the
\* spades are tied, and the 10 of diamonds and an Ace are in different piles.
C20_Witness ==
    /\ pc = "done"
    /\ num_players = 2
    /\ Len(capture_pile[0]) # Len(capture_pile[1])
    /\ SpadesOf(0) = SpadesOf(1)
    /\ \E p \in {0, 1} :
          /\ Count(capture_pile[p], Card("10", "DIAMONDS")) > 0
          /\ AcesOf(1 - p) > 0

----------------------------------------------------------------------------
(* C21: the scores of a partnership game *)

\* the partner of a player in the pairs of `partnerships`
PartnerOf(p) ==
    CHOOSE q \in Players :
        q # p /\ \E k \in 1..Len(partnerships) :
                    {partnerships[k][1], partnerships[k][2]} = {p, q}

\* a player of the other partnership
RivalOf(p) == CHOOSE q \in Players : q # p /\ q # PartnerOf(p)

\* the points of the pile of a player for the 2 of spades, the 10 of diamonds
\* and the Aces
SpecialPoints(p) ==
    (IF Count(capture_pile[p], Card("2", "SPADES")) > 0 THEN 1 ELSE 0)
    + (IF Count(capture_pile[p], Card("10", "DIAMONDS")) > 0 THEN 2 ELSE 0)
    + AcesOf(p)

\* the cards and the spades of the piles of a player and the partner
TeamCards(p) == Len(capture_pile[p]) + Len(capture_pile[PartnerOf(p)])

TeamSpades(p) == SpadesOf(p) + SpadesOf(PartnerOf(p))

\* C21: partnership scoring.  In a four-player partnership game the card and
\* spade majorities are decided on the summed piles of each partnership,
\* every point of a partnership, those of the special cards too, goes to
\* both of its players, and the two partners have equal scores.
C21_PartnershipScores ==
    (pc = "done" /\ num_players = 4) =>
        \A p \in Players :
            /\ scores[p] = scores[PartnerOf(p)]
            /\ scores[p] =
                  Majority(TeamCards(p), TeamCards(RivalOf(p)))
                  + Majority(TeamSpades(p), TeamSpades(RivalOf(p)))
                  + SpecialPoints(p) + SpecialPoints(PartnerOf(p))

\* A partnership game has been scored in which a player with an empty pile
\* has the points of the partner, and both partnerships have points.
C21_Witness ==
    /\ pc = "done"
    /\ num_players = 4
    /\ \E p \in Players :
          /\ capture_pile[p] = <<>>
          /\ SpecialPoints(PartnerOf(p)) > 0
          /\ scores[p] > 0
          /\ scores[RivalOf(p)] > 0

----------------------------------------------------------------------------
(* C22: the order of the turns *)

\* after the step, the players at the places from..to of the round that
\* starts at the player cp hold no card
PassedOver(cp, from, to) ==
    \A j \in from..to : hand'[(cp + j) % num_players] = <<>>

\* the next turn is taken later in the same round, every player in between
\* holding no card
SameRound ==
    /\ current_player' = current_player
    /\ loop_i' > loop_i
    /\ PassedOver(current_player, loop_i + 1, loop_i' - 1)

\* the round is over: the players after the one who played hold no card, and
\* current_player has moved on by one
RoundOver ==
    /\ PassedOver(current_player, loop_i + 1, num_players - 1)
    /\ current_player' = (current_player + 1) % num_players

\* C22: round order.  In each round of play_full_game the players who hold
\* a card take their turns one at a time in seating order from
\* current_player on, each at most once in the round, and current_player
\* moves on by exactly one after each full round and at no other time.
C22_RoundOrder ==
    [][ /\ pc' = "turn" =>
              /\ loop_i' \in 0..(num_players - 1)
              /\ hand'[(current_player' + loop_i') % num_players] # <<>>
        /\ pc = "turn" =>
              /\ last_call'.player = (current_player + loop_i) % num_players
              /\ \/ pc' = "turn" /\ SameRound
                 \/ /\ pc' = "turn"
                    /\ RoundOver
                    /\ PassedOver(current_player', 0, loop_i' - 1)
                 \/ /\ pc' = "cleanup"
                    /\ RoundOver
                    /\ \A p \in Players : hand'[p] = <<>>
        /\ (pc = "setup" /\ pc' = "turn") =>
              /\ current_player' = current_player
              /\ PassedOver(current_player, 0, loop_i' - 1)
        /\ pc # "turn" => current_player' = current_player
      ]_vars

----------------------------------------------------------------------------
(* C23: the cards and the builds can_augment_build offers *)

\* the player and, in a partnership game, the partner of the player
Allies(p) ==
    {p} \cup {q \in Players : \E k \in 1..Len(partnerships) :
                 {partnerships[k][1], partnerships[k][2]} = {p, q}}

\* the card is the last card put on the capture pile of a player who is
\* neither the player p nor the partner of p
TopOfRival(p, card) ==
    \E q \in Players \ Allies(p) :
        capture_pile[q] # <<>> /\ capture_pile[q][Len(capture_pile[q])] = card

\* the card lies on a pile of the player p or of the partner, or on a pile
\* below its top card
Hidden(p, card) ==
    \/ \E q \in Allies(p) : Count(capture_pile[q], card) > 0
    \/ \E q \in Players : \E k \in 1..(Len(capture_pile[q]) - 1) :
          capture_pile[q][k] = card

\* C23: pile visibility in the augmentation options.  Every augmenting card
\* can_augment_build offers for a build of the player or of the partner is a
\* loose card of the layout or the top card of the pile of a player who is
\* neither the player nor the partner, and has a value equal to the
\* total_value of the build; a card below the top of a pile, or of a pile of
\* the player or the partner, is never offered.  'change_opponent_build' is
\* offered only for a build of a player who is neither the player nor the
\* partner, 'augment_own_build' only for a build of the player or the partner.
C23_PileVisibility ==
    last_call.op = "can_augment_build" =>
        \A k \in 1..Len(actions) :
            /\ actions[k].kind = "augment"
            /\ actions[k].config.action \in {"change_opponent_build", "augment_own_build"}
            /\ actions[k].config.action = "change_opponent_build" =>
                  builds_created[actions[k].config.build].owner
                      \notin Allies(last_call.player)
            /\ actions[k].config.action = "augment_own_build" =>
                  /\ builds_created[actions[k].config.build].owner
                        \in Allies(last_call.player)
                  /\ builds_created[actions[k].config.build].total_value
                        \in ValuesOf(actions[k].config.augmenting_card)
                  /\ \/ LooseCount(actions[k].config.augmenting_card) > 0
                     \/ TopOfRival(last_call.player, actions[k].config.augmenting_card)
                  /\ ~Hidden(last_call.player, actions[k].config.augmenting_card)

\* In a partnership game can_augment_build has offered, for a build of the
\* partner, the top card of the pile of a player of the other partnership,
\* while a card of the value of the build lies on the pile of the player or
\* of the partner, or below the top of a pile.
C23_Witness ==
    /\ last_call.op = "can_augment_build"
    /\ num_players = 4
    /\ builds_created[1].owner \in Allies(last_call.player) \ {last_call.player}
    /\ \E k \in 1..Len(actions) :
          /\ actions[k].config.action = "augment_own_build"
          /\ LooseCount(actions[k].config.augmenting_card) = 0
    /\ \E card \in FullDeck :
          /\ builds_created[1].total_value \in ValuesOf(card)
          /\ Hidden(last_call.player, card)

\* can_augment_build has offered to change the build of a player who is
\* neither the player nor the partner
C23_SeizureOffered ==
    /\ last_call.op = "can_augment_build"
    /\ \E k \in 1..Len(actions) : actions[k].config.action = "change_opponent_build"

----------------------------------------------------------------------------
(* C24: an augmenting card from the top of a pile *)

\* C24: pile-top augmentation keeps the source card.  When the
\* 'augment_own_build' branch of execute_build is applied with an augmenting
\* card that is not loose on the layout but the top card of the pile of an
\* opponent, the card is appended to the build after the played card and
\* every capture pile stays as it was: the card is then both in the build and
\* on the pile of the opponent.
C24_PileTopKept ==
    [][ (/\ last_call'.op = "execute_build"
         /\ last_call'.config.action = "augment_own_build"
         /\ "type" \in last_call'.config.keys
         /\ ~Contains(get_loose_cards(layout), last_call'.config.augmenting_card)
         /\ TopOfRival(last_call'.player, last_call'.config.augmenting_card))
        => (/\ last_call'.ret = "True"
            /\ builds_created'[last_call'.config.build].cards
                  = builds_created[last_call'.config.build].cards
                      \o <<last_call'.played_card, last_call'.config.augmenting_card>>
            /\ capture_pile' = capture_pile
            /\ layout' = layout
            /\ \E q \in Players \ Allies(last_call'.player) :
                  /\ capture_pile'[q] # <<>>
                  /\ capture_pile'[q][Len(capture_pile'[q])]
                        = last_call'.config.augmenting_card) ]_vars

\* The branch has put the top card of the pile of an opponent in a build of
\* the layout, and the card is on that pile still.
C24_Witness ==
    /\ last_call.op = "execute_build"
    /\ last_call.config.action = "augment_own_build"
    /\ last_call.ret = "True"
    /\ TopOfRival(last_call.player, last_call.config.augmenting_card)
    /\ LooseCount(last_call.config.augmenting_card) = 0
    /\ BuildCount(last_call.config.augmenting_card) = 1

----------------------------------------------------------------------------
(* C25: the creation of a build *)

\* the turn just taken applied a build option whose cards were all loose on
\* the layout
BuildCreated ==
    /\ last_call'.op = "play_turn"
    /\ last_call'.kind = "build"
    /\ \A k \in 1..Len(last_call'.config.cards) :
          LooseCount(last_call'.config.cards[k]) > 0

\* C25: build creation effect.  A build option {cards: S, total_value: t}
\* applied with all of S loose on the layout takes exactly the cards of S off
\* the loose cards, appends to the layout one new Build with the cards of S
\* followed by the played card, the total_value t, the player as owner and
\* is_augmented false, and changes no other item of the layout, no build, no
\* capture pile and no hand but for the played card that has left the hand.
C25_BuildCreation ==
    [][ BuildCreated =>
          /\ last_call'.ret = "True"
          /\ builds_created' =
                Append(builds_created,
                       Build(last_call'.config.cards \o <<last_call'.played_card>>,
                             last_call'.config.total_value,
                             last_call'.player, FALSE))
          /\ layout' =
                SelectSeq(layout,
                          LAMBDA item : IsBuild(item)
                                           \/ ~Contains(last_call'.config.cards, item.card))
                    \o <<BuildItem(Len(builds_created) + 1)>>
          /\ capture_pile' = capture_pile
          /\ last_capture' = last_capture
          /\ hand' = [hand EXCEPT ![last_call'.player] =
                         RemoveAt(hand[last_call'.player], last_call'.card_index)]
      ]_vars

\* A turn has made a build of two loose cards and the played card on a layout
\* that holds a loose card still.
C25_Witness ==
    /\ last_call.op = "play_turn"
    /\ last_call.kind = "build"
    /\ last_call.ret = "True"
    /\ Len(last_call.config.cards) >= 2
    /\ Len(layout) >= 2
    /\ \E k \in 1..Len(layout) : ~IsBuild(layout[k])

----------------------------------------------------------------------------
(* C26: the special cards at the scoring of a game played to the end *)

\* C26: hand-held special cards never score in a completed game.  When
\* play_full_game reaches calculate_scores every hand is empty, so the
\* has_card tests for the 2 of spades and the 10 of diamonds are false for
\* every player and the points of a player for the special cards are those
\* of the cards of the capture pile; in a game of three players, which has
\* no majority points, they are the whole score.
C26_NoHandSpecials ==
    pc \in {"scores", "done"} =>
        \A p \in Players :
            /\ hand[p] = <<>>
            /\ ~has_card(Game, p, spy_two)
            /\ ~has_card(Game, p, big_ten)
            /\ special_of(Game, p) = SpecialPoints(p)
            /\ (pc = "done" /\ num_players = 3) => scores[p] = SpecialPoints(p)

\* A game of three players has been scored with the 2 of spades and the 10
\* of diamonds on capture piles.
C26_Witness ==
    /\ pc = "done"
    /\ num_players = 3
    /\ \E p \in Players : Count(capture_pile[p], Card("2", "SPADES")) > 0
    /\ \E p \in Players : Count(capture_pile[p], Card("10", "DIAMONDS")) > 0
    /\ \E p \in Players : scores[p] >= 3

----------------------------------------------------------------------------
(* C27: equal hands at the start of the rounds *)

\* after the step all the players hold the same number of cards
EqualHands == \A p, q \in Players : Len(hand'[p]) = Len(hand'[q])

\* C27: equal hands at round boundaries.  In a game whose deal comes out
\* even (the cards left after the cut of four are a multiple of the number
\* of players, as they are for 2, 3 and 4 players with 40 and with 52 cards),
\* setup_game gives every player the same number of cards, the players hold
\* equally many cards at the start of every round, every player takes
\* exactly one turn in every round, and the hand ends, after as many rounds
\* as a player was dealt cards, with every hand empty.
C27_EqualHandsAtRounds ==
    [][ (DeckSize - 4) % num_players = 0 =>
          /\ pc = "setup" =>
                /\ Len(layout') = 4
                /\ \A p \in Players :
                      Len(hand'[p]) = (DeckSize - 4) \div num_players
          /\ (pc' = "turn" /\ loop_i' = 0) => EqualHands
          /\ pc = "turn" =>
                \/ /\ pc' = "turn"
                   /\ current_player' = current_player
                   /\ loop_i' = loop_i + 1
                \/ /\ loop_i = num_players - 1
                   /\ pc' = "turn"
                   /\ loop_i' = 0
                   /\ current_player' = (current_player + 1) % num_players
                \/ /\ loop_i = num_players - 1
                   /\ pc' = "cleanup"
                   /\ \A p \in Players : hand'[p] = <<>>
      ]_vars

\* the same with the turns that end in an exception left aside
C27_UnlessRaised ==
    [][ ((DeckSize - 4) % num_players = 0 /\ pc' # "raised") =>
          /\ pc = "setup" =>
                /\ Len(layout') = 4
                /\ \A p \in Players :
                      Len(hand'[p]) = (DeckSize - 4) \div num_players
          /\ (pc' = "turn" /\ loop_i' = 0) => EqualHands
          /\ pc = "turn" =>
                \/ /\ pc' = "turn"
                   /\ current_player' = current_player
                   /\ loop_i' = loop_i + 1
                \/ /\ loop_i = num_players - 1
                   /\ pc' = "turn"
                   /\ loop_i' = 0
                   /\ current_player' = (current_player + 1) % num_players
                \/ /\ loop_i = num_players - 1
                   /\ pc' = "cleanup"
                   /\ \A p \in Players : hand'[p] = <<>>
      ]_vars

====
